---- MODULE Spec2Model ----
(***************************************************************************)
(* Forward filtering, backward sampling for a discrete HMM (src/hmm.py).   *)
(*                                                                         *)
(* Numbers.  A value in linear space is an exact non-negative rational     *)
(* <<n, d>> in lowest terms (d > 0), or NaN == <<0, 0>>.  A value in log   *)
(* space is [ln |-> q]: the logarithm of the linear value q, so that       *)
(* log(0) = -inf is [ln |-> <<0, 1>>].  Adding logs multiplies the         *)
(* antilogs, subtracting divides them, and -inf - (-inf) is NaN as in      *)
(* IEEE arithmetic.  Rounding error of the float arithmetic is not         *)
(* modelled.                                                               *)
(*                                                                         *)
(* Python indices are 0-based; sequences here are 1-based, so v[i] of the  *)
(* source is v[i + 1] here.  State indices keep their 0-based values.      *)
(***************************************************************************)
EXTENDS Integers, Sequences, FiniteSets

\* ----------------------------------------------------------------- bounds
MaxL == 2        \* timesteps of a likelihoods / forward matrix
MaxW == 1        \* input weights are the multiples of 1/MaxW in [0, 1]
MaxTemp == 1     \* tempering exponents are 0..MaxTemp
RDen == 4        \* uniform draws are the multiples of 1/RDen in [0, 1)
MaxLenV == 2     \* length of the vectors handed to sample directly

\* ------------------------------------------------------ rational numbers
RECURSIVE GCD(_, _)
GCD(a, b) == IF b = 0 THEN a ELSE GCD(b, a % b)

NaN == <<0, 0>>
Zero == <<0, 1>>
One == <<1, 1>>

IsNaN(q) == q[2] = 0

Rat(n, d) == IF d = 0 THEN NaN ELSE LET g == GCD(n, d) IN <<n \div g, d \div g>>

\* a + b (0 + b and a + 0 are already in lowest terms)
RAdd(a, b) == IF IsNaN(a) \/ IsNaN(b) THEN NaN
              ELSE IF a[1] = 0 THEN b
              ELSE IF b[1] = 0 THEN a
              ELSE Rat(a[1] * b[2] + b[1] * a[2], a[2] * b[2])

RMul(a, b) == IF IsNaN(a) \/ IsNaN(b) THEN NaN
              ELSE Rat(a[1] * b[1], a[2] * b[2])

\* a / b.  0/0 is NaN; x/0 with x > 0 (+inf) never arises in the filter:
\* every divisor is a sum or a maximum of the terms it divides.
RDiv(a, b) == IF IsNaN(a) \/ IsNaN(b) THEN NaN
              ELSE Rat(a[1] * b[2], a[2] * b[1])

\* a <= b; every comparison with NaN is false.
RLeq(a, b) == /\ ~IsNaN(a)
              /\ ~IsNaN(b)
              /\ a[1] * b[2] <= b[1] * a[2]

\* a ** k, k a natural number; x ** 0 is 1 for every x (0 and NaN included).
RECURSIVE RPow(_, _)
RPow(a, k) == IF k = 0 THEN One ELSE RMul(a, RPow(a, k - 1))

\* s[1] + ... + s[n], accumulated from the left
RECURSIVE RSumTo(_, _)
RSumTo(s, n) == IF n = 0 THEN Zero ELSE RAdd(RSumTo(s, n - 1), s[n])
RSum(s) == RSumTo(s, Len(s))

RECURSIVE RMax(_)
RMax(s) == IF Len(s) = 1 THEN s[1]
           ELSE LET m == RMax(Tail(s))
                IN IF IsNaN(s[1]) \/ IsNaN(m) THEN NaN
                   ELSE IF RLeq(m, s[1]) THEN s[1] ELSE m

\* ------------------------------------------------------------- log space
Log(q) == [ln |-> q]
Exp(x) == x.ln

VLog(v) == [i \in 1..Len(v) |-> Log(v[i])]
VExp(x) == [i \in 1..Len(x) |-> Exp(x[i])]

\* x + y and x - a on log values.
LAdd(x, y) == Log(RMul(Exp(x), Exp(y)))
LSub(x, a) == Log(RDiv(Exp(x), Exp(a)))
VLAdd(x, y) == [i \in 1..Len(x) |-> LAdd(x[i], y[i])]

\* np.logaddexp.reduce(x)
LogAddExpReduce(x) == Log(RSum(VExp(x)))

\* ---------------------------------------------------------- linear algebra
VPow(v, k) == [i \in 1..Len(v) |-> RPow(v[i], k)]
MPow(M, k) == [i \in 1..Len(M) |-> VPow(M[i], k)]
Dot(M, v) == [i \in 1..Len(M) |-> RSum([j \in 1..Len(v) |-> RMul(M[i][j], v[j])])]

Last(s) == s[Len(s)]
Reverse(s) == [i \in 1..Len(s) |-> s[Len(s) + 1 - i]]

\* ------------------------------------------------------------- lognormalize
\* Variant: shifts by the largest entry instead of the log-sum-exp.
lognormalize_by_max(x) == LET a == Log(RMax(VExp(x)))
                          IN [i \in 1..Len(x) |-> LSub(x[i], a)]

lognormalize(x) == LET a == LogAddExpReduce(x)
                   IN [i \in 1..Len(x) |-> LSub(x[i], a)]

\* ------------------------------------------------------------------ sample
None == -1

\* Variant: the comparison is strict (r < rolling).
RECURSIVE sample_walk_strict(_, _, _, _)
sample_walk_strict(v, r, i, rolling) ==
    IF i >= Len(v) THEN None
    ELSE LET roll == RAdd(rolling, v[i + 1])
         IN IF RLeq(r, roll) /\ r # roll THEN i
            ELSE sample_walk_strict(v, r, i + 1, roll)

RECURSIVE sample_walk(_, _, _, _)
sample_walk(v, r, i, rolling) ==
    IF i >= Len(v) THEN None
    ELSE LET roll == RAdd(rolling, v[i + 1])
         IN IF RLeq(r, roll) THEN i ELSE sample_walk(v, r, i + 1, roll)

sample(v, r) == sample_walk(v, r, 0, Zero)

\* The normalized row B that smart_sampling hands to sample (A has one row).
smart_sampling_B(row) ==
    LET m == Log(RMax(VExp(row)))
        E == [i \in 1..Len(row) |-> Exp(LSub(row[i], m))]
        s == RSum(E)
    IN [i \in 1..Len(row) |-> RDiv(E[i], s)]

\* ------------------------------------------------------------ input sets
Weights == {Rat(k, MaxW) : k \in 0..MaxW}
WeightRows(n) == [1..n -> Weights]

\* Rows of emission log-likelihoods: log of any weight vector, -inf included.
LikRows(n) == {VLog(w) : w \in WeightRows(n)}
LikMats(n) == UNION {[1..l -> LikRows(n)] : l \in 0..MaxL}

\* Log-distributions: weight vectors of non-zero sum, divided by their sum.
Dists(n) == {[i \in 1..n |-> RDiv(w[i], RSum(w))] :
                w \in {u \in WeightRows(n) : RSum(u) # Zero}}
LogDists(n) == {VLog(d) : d \in Dists(n)}
FwdMats(n) == UNION {[1..l -> LogDists(n)] : l \in 0..MaxL}

Temperings == (0..MaxTemp) \X (0..MaxTemp)

\* Uniform draws in [0, 1).
Draws == {Rat(k, RDen) : k \in 0..(RDen - 1)}

\* Transition matrices, T[i][j] = P(next = i | current = j), columns sum to 1.
Identity(n) == [i \in 1..n |-> [j \in 1..n |-> IF i = j THEN One ELSE Zero]]
\* diagonal 4/5, the rest of each column shared equally (n >= 2)
Bias(n) == [i \in 1..n |-> [j \in 1..n |->
               IF i = j THEN Rat(4, 5) ELSE Rat(1, 5 * (n - 1))]]
\* state 0 is absorbing, every other state moves to a uniformly chosen state
Absorb(n) == [i \in 1..n |-> [j \in 1..n |->
               IF j = 1 THEN (IF i = 1 THEN One ELSE Zero) ELSE Rat(1, n)]]
TMats(n) == {Identity(n), Absorb(n)} \cup (IF n >= 2 THEN {Bias(n)} ELSE {})
\* The models built are those for one state and for two states.
Sizes == {1, 2}
TSet == UNION {TMats(n) : n \in Sizes}

\* ------------------------------------------------------------------- state
VARIABLES
    T,                    \* build_hmm's T, closed over by both functions
    pc,                   \* "idle", "hmm_forward", "forward_returned",
                          \* "hmm_backward", "backward_returned", "sample_returned", "error"
    raised,               \* the exception that ended the call, or "none"
    likelihoods, prior, tempering,            \* hmm_forward's arguments
    forward,              \* hmm_forward's list / hmm_backward's argument
    lastp, rest_of_likelihoods,               \* hmm_forward's locals
    states, reverse, rstates,                 \* hmm_backward's argument, locals
    curP,                 \* the values of curT the loop has still to take
    resample, backward,   \* hmm_backward's accumulators and return values
    B,                    \* the weight vector last handed to sample
    draws,                \* the values npr.rand has returned, in order
    sampled               \* the array smart_sampling last returned

vars == <<T, pc, raised, likelihoods, prior, tempering, forward, lastp,
          rest_of_likelihoods, states, reverse, rstates, curP, resample,
          backward, B, draws, sampled>>

fwdVars == <<likelihoods, prior, tempering, lastp, rest_of_likelihoods>>
bwdVars == <<states, reverse, rstates, curP, resample, backward>>
smpVars == <<B, draws, sampled>>

S == Len(T)

Init ==
    /\ T \in TSet
    /\ pc = "idle"
    /\ raised = "none"
    /\ likelihoods = <<>> /\ prior = <<>> /\ tempering = <<1, 1>>
    /\ forward = <<>> /\ lastp = <<>> /\ rest_of_likelihoods = <<>>
    /\ states = <<>> /\ reverse = <<>> /\ rstates = <<>>
    /\ curP = <<>> /\ resample = <<>> /\ backward = <<>>
    /\ B = <<>> /\ draws = <<>> /\ sampled = <<>>

\* ------------------------------------------------------------- hmm_forward
\* Variant: an empty likelihoods matrix yields an empty result, no exception.
ForwardCall_empty_result(lik, pr, temp) ==
    /\ pc = "idle"
    /\ likelihoods' = lik /\ prior' = pr /\ tempering' = temp
    /\ IF Len(lik) = 0
       THEN /\ raised' = "none"
            /\ pc' = "forward_returned"
            /\ forward' = <<>>
            /\ UNCHANGED <<lastp, rest_of_likelihoods>>
       ELSE LET alpha == temp[1]
                beta == temp[2]
                p1 == lik[1]
                p2 == VLog(Dot(MPow(T, beta), VPow(VExp(pr), alpha)))
                row == lognormalize(VLAdd(p1, p2))
            IN /\ forward' = <<row>>
               /\ lastp' = forward'[1]
               /\ rest_of_likelihoods' = Tail(lik)
               /\ pc' = "hmm_forward"
               /\ raised' = "none"
    /\ UNCHANGED <<T, bwdVars, smpVars>>

\* lines 35-46: the first iteration, with the tempered prior and T.
ForwardCall(lik, pr, temp) ==
    /\ pc = "idle"
    /\ likelihoods' = lik /\ prior' = pr /\ tempering' = temp
    /\ IF Len(lik) = 0
       THEN \* likelihoods[0] is out of range
            /\ raised' = "IndexError"
            /\ pc' = "error"
            /\ forward' = <<>>
            /\ UNCHANGED <<lastp, rest_of_likelihoods>>
       ELSE LET alpha == temp[1]
                beta == temp[2]
                p1 == lik[1]
                p2 == VLog(Dot(MPow(T, beta), VPow(VExp(pr), alpha)))
                row == lognormalize(VLAdd(p1, p2))
            IN /\ forward' = <<row>>
               /\ lastp' = forward'[1]
               /\ rest_of_likelihoods' = Tail(lik)
               /\ pc' = "hmm_forward"
               /\ raised' = "none"
    /\ UNCHANGED <<T, bwdVars, smpVars>>

\* Variant: the loop keeps the tempered transition matrix of the first step.
ForwardStep_tempered ==
    /\ pc = "hmm_forward"
    /\ rest_of_likelihoods # <<>>
    /\ LET p1 == Head(rest_of_likelihoods)
           p2 == VLog(Dot(MPow(T, tempering[2]), VExp(lastp)))
           value == lognormalize(VLAdd(p1, p2))
       IN /\ lastp' = value
          /\ forward' = Append(forward, lastp')
    /\ rest_of_likelihoods' = Tail(rest_of_likelihoods)
    /\ UNCHANGED <<T, pc, raised, likelihoods, prior, tempering, bwdVars, smpVars>>

\* lines 47-52: one iteration of the loop over likelihoods[1:].
ForwardStep ==
    /\ pc = "hmm_forward"
    /\ rest_of_likelihoods # <<>>
    /\ LET p1 == Head(rest_of_likelihoods)
           p2 == VLog(Dot(T, VExp(lastp)))
           value == lognormalize(VLAdd(p1, p2))
       IN /\ lastp' = value
          /\ forward' = Append(forward, lastp')
    /\ rest_of_likelihoods' = Tail(rest_of_likelihoods)
    /\ UNCHANGED <<T, pc, raised, likelihoods, prior, tempering, bwdVars, smpVars>>

\* line 53
ForwardReturn ==
    /\ pc = "hmm_forward"
    /\ rest_of_likelihoods = <<>>
    /\ pc' = "forward_returned"
    /\ UNCHANGED <<T, raised, likelihoods, prior, tempering, forward, lastp,
                   rest_of_likelihoods, bwdVars, smpVars>>

\* ------------------------------------------------------------ hmm_backward
\* lines 58-66: the last timestep, sampled from the forward row itself.
BackwardCall(fw, st, r) ==
    /\ pc \in {"idle", "forward_returned"}
    /\ forward' = fw /\ states' = st
    /\ reverse' = Reverse(fw) /\ rstates' = Reverse(st)
    /\ IF Len(fw) = 0
       THEN \* times is empty: times[0] is out of range
            /\ raised' = "IndexError"
            /\ pc' = "error"
            /\ resample' = <<>> /\ backward' = <<>>
            /\ UNCHANGED <<curP, smpVars>>
       ELSE LET first == reverse'[1]
            IN /\ B' = smart_sampling_B(first)
               /\ draws' = Append(draws, r)
               /\ sampled' = <<sample(B', r)>>
               /\ resample' = <<sampled'[1]>>
               /\ backward' = <<first>>
               /\ curP' = [k \in 1..(Len(fw) - 1) |-> k]
               /\ pc' = "hmm_backward"
               /\ raised' = "none"
    /\ UNCHANGED <<T, fwdVars>>

\* lines 69-75: one iteration of the loop over times[1:].
BackwardStep(r) ==
    /\ pc = "hmm_backward"
    /\ curP # <<>>
    /\ LET curT == Head(curP)
           p1 == VLog(T[rstates[curT + 1] + 1])
           p2 == reverse[curT + 1]
           result == lognormalize(VLAdd(p1, p2))
       IN /\ backward' = Append(backward, result)
          /\ B' = smart_sampling_B(Last(backward'))
          /\ draws' = Append(draws, r)
          /\ sampled' = <<sample(B', r)>>
          /\ resample' = Append(resample, sampled'[1])
    /\ curP' = Tail(curP)
    /\ UNCHANGED <<T, pc, raised, fwdVars, forward, states, reverse, rstates>>

\* Variant: the accumulators are returned in the order they were filled.
BackwardReturn_unflipped ==
    /\ pc = "hmm_backward"
    /\ curP = <<>>
    /\ pc' = "backward_returned"
    /\ UNCHANGED <<T, raised, fwdVars, forward, states, reverse, rstates, curP,
                   resample, backward, smpVars>>

\* lines 77-78: both accumulators are flipped and returned.
BackwardReturn ==
    /\ pc = "hmm_backward"
    /\ curP = <<>>
    /\ resample' = Reverse(resample)
    /\ backward' = Reverse(backward)
    /\ pc' = "backward_returned"
    /\ UNCHANGED <<T, raised, fwdVars, forward, states, reverse, rstates, curP, smpVars>>

\* ------------------------------------------------------------------ sample
\* A direct call sample(v, r) of the module-level function.
SampleCall(v, r) ==
    /\ pc = "idle"
    /\ B' = v
    /\ draws' = <<r>>
    /\ sampled' = <<sample(v, r)>>
    /\ pc' = "sample_returned"
    /\ UNCHANGED <<T, raised, fwdVars, forward, bwdVars>>

\* ---------------------------------------------------------- specifications
StateSeqs(l) == [1..l -> 0..(S - 1)]

\* hmm_forward alone, on every likelihood matrix, prior and tempering.
NextForward ==
    \/ /\ pc = "idle"
       /\ \E lik \in LikMats(S), pr \in LogDists(S), temp \in Temperings :
             ForwardCall(lik, pr, temp)
    \/ ForwardStep
    \/ ForwardReturn

SpecForward == Init /\ [][NextForward]_vars

\* hmm_backward alone, on every matrix of log-distributions.
NextBackward ==
    \/ /\ pc = "idle"
       /\ \E fw \in FwdMats(S), r \in Draws :
             \E st \in StateSeqs(Len(fw)) : BackwardCall(fw, st, r)
    \/ /\ pc = "hmm_backward"
       /\ \E r \in Draws : BackwardStep(r)
    \/ BackwardReturn

SpecBackward == Init /\ [][NextBackward]_vars

\* sample alone, on every weight vector and every draw in [0, 1].
SampleVecs == UNION {[1..n -> {Rat(k, RDen) : k \in 0..RDen}] : n \in 1..MaxLenV}

NextSample ==
    /\ pc = "idle"
    /\ \E v \in SampleVecs, r \in Draws \cup {One} : SampleCall(v, r)

SpecSample == Init /\ [][NextSample]_vars

\* Independent calls: hmm_forward with the default tempering, or hmm_backward
\* on any matrix of log-distributions.
NextCalls ==
    \/ /\ pc = "idle"
       /\ \E lik \in LikMats(S), pr \in LogDists(S) : ForwardCall(lik, pr, <<1, 1>>)
    \/ ForwardStep
    \/ ForwardReturn
    \/ /\ pc = "idle"
       /\ \E fw \in FwdMats(S), r \in Draws :
             \E st \in StateSeqs(Len(fw)) : BackwardCall(fw, st, r)
    \/ /\ pc = "hmm_backward"
       /\ \E r \in Draws : BackwardStep(r)
    \/ BackwardReturn

SpecCalls == Init /\ [][NextCalls]_vars

\* hmm_forward with the default tempering, then hmm_backward on what it
\* returned.
Next ==
    \/ /\ pc = "idle"
       /\ \E lik \in LikMats(S), pr \in LogDists(S) : ForwardCall(lik, pr, <<1, 1>>)
    \/ ForwardStep
    \/ ForwardReturn
    \/ /\ pc = "forward_returned"
       /\ \E r \in Draws : \E st \in StateSeqs(Len(forward)) :
             BackwardCall(forward, st, r)
    \/ /\ pc = "hmm_backward"
       /\ \E r \in Draws : BackwardStep(r)
    \/ BackwardReturn

Spec == Init /\ [][Next]_vars

\* ------------------------------------------------------------------ claims
L == Len(forward)
IsState(x) == x \in 0..(S - 1)

\* v[0] + ... + v[i], the running sum of the walk at index i (0-based).
Cum(v, i) == RSum(SubSeq(v, 1, i + 1))

\* The smoothing row that conditions forward row fr on next-state index k.
Smooth(k, fr) == lognormalize(VLAdd(VLog(T[k + 1]), fr))

\* C1: hmm_backward returns a trajectory of exactly L entries, each of them a
\* state index in 0..S-1 and never None.
C1_TrajectoryIsValid ==
    pc = "backward_returned" =>
        /\ Len(resample) = L
        /\ \A t \in 1..Len(resample) : IsState(resample[t])

\* The unnormalized row of step t (1-based) of hmm_forward, in log space.
Unnormalized(t) ==
    IF t = 1
    THEN VLAdd(likelihoods[1],
               VLog(Dot(MPow(T, tempering[2]), VPow(VExp(prior), tempering[1]))))
    ELSE VLAdd(likelihoods[t], VLog(Dot(T, VExp(forward[t - 1]))))

NonZeroWeight(t) == RSum(VExp(Unnormalized(t))) \notin {Zero, NaN}

\* C2: hmm_forward returns exactly L rows, and when every step has non-zero
\* total weight every row sums to 1 in linear space.
C2_ForwardRowsNormalized ==
    pc = "forward_returned" =>
        /\ Len(forward) = Len(likelihoods)
        /\ (\A t \in 1..Len(forward) : NonZeroWeight(t))
              => \A t \in 1..Len(forward) : RSum(VExp(forward[t])) = One

C2_Witness ==
    /\ pc = "forward_returned"
    /\ Len(forward) = 2
    /\ \A t \in 1..2 : NonZeroWeight(t)
    /\ RSum(VExp(Unnormalized(2))) # One
    /\ T # Identity(S)
    /\ forward[1] # forward[2]

\* C3: the smoothing row returned at timestep t < L-1 is the normalization of
\* forward[t] combined with the row of T indexed by states[t+1].
C3_RowOfNextState ==
    pc = "backward_returned" =>
        \A t \in 1..(L - 1) : backward[t] = Smooth(states[t + 1], forward[t])

\* C4: sample(v, r) returns the first index whose running sum is >= r, so a
\* draw equal to a cumulative boundary yields the lower index.
C4_FirstIndexReachingDraw ==
    pc = "sample_returned" =>
        LET i == sampled[1]
            r == draws[1]
        IN (\E j \in 0..(Len(B) - 1) : RLeq(r, Cum(B, j))) =>
              /\ i \in 0..(Len(B) - 1)
              /\ RLeq(r, Cum(B, i))
              /\ \A j \in 0..(i - 1) : ~RLeq(r, Cum(B, j))

C4_Witness ==
    /\ pc = "sample_returned"
    /\ Len(B) = 2
    /\ sampled[1] = 0
    /\ draws[1] = Cum(B, 0)
    /\ draws[1] # Zero
    /\ B[2] # Zero

\* The walk of the last sample call ran through every index without the
\* running sum reaching the draw.
WalkExhausted ==
    /\ sampled # <<>>
    /\ \A j \in 0..(Len(B) - 1) : ~RLeq(Last(draws), Cum(B, j))

\* C5: when the walk is exhausted the sampler fails with a
\* SamplingInvariantError: the call is aborted and no invalid value is
\* returned or stored in the trajectory.
C5_ExhaustedWalkRaises ==
    WalkExhausted =>
        /\ raised = "SamplingInvariantError"
        /\ pc = "error"
        /\ \A k \in 1..Len(resample) : resample[k] # None

\* A call of hmm_forward or hmm_backward on an empty time axis has been made.
CalledOnEmpty == pc \notin {"idle", "sample_returned"} /\ forward = <<>>

NothingComputed ==
    /\ pc = "error"
    /\ lastp = <<>> /\ resample = <<>> /\ backward = <<>>
    /\ draws = <<>> /\ sampled = <<>>

\* C6 (as stated): a call on an empty time axis fails with an
\* EmptySequenceError before any filtering or sampling step.
C6_EmptySequenceError ==
    CalledOnEmpty => raised = "EmptySequenceError" /\ NothingComputed

\* C6 (amended): a call on an empty time axis fails with an IndexError before
\* any filtering or sampling step, and returns no output.
C6_EmptyFailsWithIndexError ==
    CalledOnEmpty => raised = "IndexError" /\ NothingComputed

C6_Witness ==
    /\ pc = "error"
    /\ raised = "IndexError"
    /\ prior # <<>>
    /\ likelihoods = <<>>

\* C7: with S = 2, identity T, tempering (1, 1) and two uninformative
\* likelihood rows, the trajectory sampled from hmm_forward's output is
\* constant, whatever the prior (both states possible), states and draws.
C7_TrajectoryConstant ==
    ( /\ pc = "backward_returned"
      /\ S = 2
      /\ T = Identity(2)
      /\ tempering = <<1, 1>>
      /\ likelihoods = <<VLog(<<One, One>>), VLog(<<One, One>>)>>
      /\ \A i \in 1..2 : Exp(prior[i]) # Zero )
    => resample[1] = resample[2]

\* C8: each backward step uses the row of T indexed by the state drawn just
\* before it, for the following timestep.  (Before the final flip, entry k-1
\* of the accumulators belongs to the timestep after that of entry k.)
C8_RowOfFreshlyDrawnState ==
    pc = "hmm_backward" =>
        /\ Len(resample) = Len(backward)
        /\ \A k \in 2..Len(backward) :
              IsState(resample[k - 1]) =>
                  backward[k] = Smooth(resample[k - 1], reverse[k])

\* C9: tempering enters row 0 only; every later row is the normalization of
\* its likelihood row combined with the untempered T applied to the row before.
C9_TemperingOnlyInRowZero ==
    pc = "forward_returned" =>
        \A t \in 1..Len(forward) : forward[t] = lognormalize(Unnormalized(t))

C9_Witness ==
    /\ pc = "forward_returned"
    /\ Len(forward) = 2
    /\ MPow(T, tempering[2]) # T
    /\ tempering[1] # 1
    /\ \A t \in 1..2 : NonZeroWeight(t)
    /\ forward[2] # lognormalize(VLAdd(likelihoods[2],
                         VLog(Dot(MPow(T, tempering[2]), VExp(forward[1])))))

\* C10: the outputs are in chronological order: L smoothing rows, the last
\* one forward[L-1] itself, every earlier row t derived from forward[t], and
\* trajectory[t] the draw made from smoothing row t (the draws are consumed
\* from the last timestep to the first, one per timestep).
C10_ChronologicalOutputs ==
    pc = "backward_returned" =>
        /\ Len(backward) = L /\ Len(resample) = L /\ Len(draws) = L
        /\ backward[L] = forward[L]
        /\ \A t \in 1..(L - 1) :
              \E k \in 0..(S - 1) : backward[t] = Smooth(k, forward[t])
        /\ \A t \in 1..L :
              resample[t] = sample(smart_sampling_B(backward[t]), draws[L + 1 - t])

C10_Witness ==
    /\ pc = "backward_returned"
    /\ L = 2
    /\ forward[1] # forward[2]
    /\ backward[1] # forward[1]
    /\ IsState(resample[1]) /\ IsState(resample[2])
    /\ resample[1] # resample[2]
    /\ draws[1] # draws[2]

====
